---- MODULE Spec2Model ----
(***************************************************************************)
(* State-machine model of src/main.py: the aiogram dispatcher with its     *)
(* per-user FSM storage (state + data), the sqlite tables users and        *)
(* contracts, and the two scheduled scans morning_protocol and             *)
(* evening_report.                                                         *)
(*                                                                         *)
(* One action per handler.  A handler is chosen the way aiogram chooses    *)
(* it: the first registered handler whose filters accept the update, in    *)
(* source order; a handler registered without a state filter accepts the   *)
(* update in every FSM state.                                              *)
(*                                                                         *)
(* Strings are ASCII stand-ins for the source's literals:                  *)
(*   "ctop" = 'стоп', "vyhod" = 'выход', HubBrain = the reply-keyboard     *)
(*   label of hub_brain, and so on.                                        *)
(***************************************************************************)
EXTENDS Integers, Sequences, FiniteSets, TLC

VARIABLES
    fsm_state,              \* MemoryStorage: user -> FSM state ("none" = no state)
    fsm_data,               \* MemoryStorage: user -> key -> stored value
    users,                  \* table users: user_id (of the rows there are) -> row
    contracts,              \* table contracts, in id (insertion) order
    out,                    \* what the last step (handler, scan step, tick) sent, in order
    raised,                 \* the last step was a handler ended by an exception it did not catch
    now,                    \* datetime.datetime.now(), in ticks
    scan,                   \* position of the running scheduled scan
    attempts,               \* users whose loop body the running / last scan entered, in order
    nEvents,                \* number of updates and timer steps handled so far
    GIGACHAT_CREDENTIALS,   \* os.getenv("GIGACHAT_CREDENTIALS") is set
    PAYMENT_TOKEN,          \* os.getenv("PAYMENT_TOKEN", "TEST_MODE")
    tasks,                  \* asyncio tasks of handlers suspended at an await or inside a call
    stats,                  \* rows of the stats table, in insertion order
    HISTORY_CACHE,          \* the module's dict of each user's normalized win texts
    user_wins               \* table user_wins (whether it exists, its rows in id order)

vars == <<fsm_state, fsm_data, users, contracts, out, raised, now, scan,
          attempts, nEvents, GIGACHAT_CREDENTIALS, PAYMENT_TOKEN, tasks, stats,
          HISTORY_CACHE, user_wins>>

dialogue_vars == <<fsm_state, fsm_data>>
store_vars == <<users, contracts, stats>>
sched_vars == <<scan, attempts>>
\* the module-level globals set while the module is loaded, and the table
\* HISTORY_CACHE is loaded from, which no handler writes
config_vars == <<GIGACHAT_CREDENTIALS, PAYMENT_TOKEN, HISTORY_CACHE, user_wins>>

-----------------------------------------------------------------------------
\* Bounds

\* updates (messages, callback queries) and timer steps handled in one behaviour
MaxEvents == 4
\* the clock runs from 0 to MaxTime ticks
MaxTime == 15
\* rows the contracts table can hold in the model
MaxContracts == 2
\* handler executions in flight at once
MaxTasks == 2
\* rows the stats table holds at most
MaxStats == 2
\* the clock's last tick in the model of the daily messages' callbacks
MaxTrackingTime == 5

\* ticks per day: a tick is half a day, so that T + 2.5 days is a clock value
TicksPerDay == 2

Users == {1, 2}

-----------------------------------------------------------------------------
\* Texts

HubBrain == "HUB_BRAIN"         \* the label of hub_brain's button
HubAction == "HUB_ACTION"       \* the label of hub_action's button
HubArchive == "HUB_ARCHIVE"     \* the label of hub_archive's button
BtnWin == "BTN_WIN"             \* the label btn_win listens for
BtnKick == "BTN_KICK"           \* the label btn_kick listens for

\* the list process_personal_ai tests membership in
ExitKeywords == {"ctop", "vyhod", "stop", "exit"}

\* message texts the model delivers
Texts == {"a", "b", "stop", "STOP", "/start", "/blackbox", "/test_day",
          HubBrain, HubAction, HubArchive, BtnWin, BtnKick}

\* str.startswith("/")
StartsWithSlash(s) == s \in {"/start", "/blackbox", "/test_day"}

\* str.lower() on the model's texts
Lower(s) == IF s = "STOP" THEN "stop" ELSE s

\* Python's None as message.text of a message without text
None == "None"
\* SQL NULL in a timestamp column
NULL == <<"null", 0>>
\* a key that is not in the FSM data dict
Absent == "Absent"

Keys == {"problem", "goal", "deadline", "memory", "q1", "q2"}

ContentTypes == {"text", "photo", "web_app_data", "successful_payment"}

\* an inbound message: its content type and message.text
Message(ctype, text) == [ctype |-> ctype, text |-> text]

TextMessages == {Message("text", t) : t \in Texts}
Photo == Message("photo", None)
WebAppData == Message("web_app_data", None)
SuccessfulPayment == Message("successful_payment", None)

\* aiogram's Command(name): the text is the command, with or without arguments
IsCommand(m, name) == m.ctype = "text" /\ m.text = name

-----------------------------------------------------------------------------
\* FSM states (the StatesGroup classes)

NoState == "none"
PersonalAIState == {"chatting"}
PerspectiveState == {"waiting_for_problem"}
ContractState == {"waiting_for_goal", "waiting_for_deadline", "waiting_for_stake"}
LegacyState == {"waiting_for_memory", "waiting_for_lessons"}
MindprintState == {"waiting_for_q1", "waiting_for_q2", "waiting_for_q3"}

States == {NoState} \cup PersonalAIState \cup PerspectiveState \cup ContractState
            \cup LegacyState \cup MindprintState

EmptyData == [k \in Keys |-> Absent]

-----------------------------------------------------------------------------
\* The users table

\* there is a row WHERE user_id = u
HasRow(tbl, u) == u \in DOMAIN tbl

\* the columns CREATE TABLE users and the ALTER TABLE statements of init_db give
UsersColumns == {"user_id", "username", "full_name", "joined_at",
                 "subscription_status", "subscription_expiry",
                 "subscription_start_date", "last_completed_day",
                 "current_self", "fear", "dream", "core_values", "vision"}

\* a SELECT naming these columns of users raises sqlite3.OperationalError
\* unless every one of them exists
SelectFails(cols) == ~(cols \subseteq UsersColumns)

\* the row INSERT OR IGNORE INTO users (user_id, username, full_name) creates:
\* the column defaults
DefaultRow == [subscription_status |-> "free",
               subscription_expiry |-> NULL,
               subscription_start_date |-> NULL,
               last_completed_day |-> 0]

\* datetime.isoformat() and datetime.fromisoformat(): the stored text of a
\* timestamp and its parse
isoformat(t) == <<"iso", t>>
fromisoformat(s) == s[2]

\* INSERT OR REPLACE: an existing row is replaced by one with the defaults
InsertOrReplaceUser(tbl, u) ==
    [x \in DOMAIN tbl \cup {u} |-> IF x = u THEN DefaultRow ELSE tbl[x]]

\* INSERT OR IGNORE INTO users (user_id, ...) VALUES (u, ...)
InsertOrIgnoreUser(tbl, u) ==
    IF HasRow(tbl, u) THEN tbl
    ELSE [x \in DOMAIN tbl \cup {u} |-> IF x = u THEN DefaultRow ELSE tbl[x]]

-----------------------------------------------------------------------------
\* The user_wins table and the history cache

\* s.lower().strip().translate(...) that deletes string.punctuation, on the
\* model's texts
normalize_text(s) ==
    IF s = "/start" THEN "start"
    ELSE IF s = "/blackbox" THEN "blackbox"
    ELSE IF s = "/test_day" THEN "testday"
    ELSE Lower(s)

\* A persisted win text is a sequence of characters, one character of each
\* class the normalization tells apart
Lowercase == {"a"}
Uppercase == {"A"}
Whitespace == {" "}
Punctuation == {"!"}
Chars == Lowercase \cup Uppercase \cup Whitespace \cup Punctuation

\* str.lower()
str_lower(s) == [i \in DOMAIN s |-> IF s[i] \in Uppercase THEN "a" ELSE s[i]]

\* str.strip(): leading and trailing whitespace removed
RECURSIVE str_lstrip(_)
str_lstrip(s) == IF s # <<>> /\ s[1] \in Whitespace THEN str_lstrip(Tail(s)) ELSE s
RECURSIVE str_rstrip(_)
str_rstrip(s) ==
    IF s # <<>> /\ s[Len(s)] \in Whitespace THEN str_rstrip(SubSeq(s, 1, Len(s) - 1)) ELSE s
str_strip(s) == str_rstrip(str_lstrip(s))

\* str.translate(str.maketrans('', '', string.punctuation))
IsNotPunctuation(c) == c \notin Punctuation
str_translate(s) == SelectSeq(s, IsNotPunctuation)

\* normalize_text on a text given by its characters:
\* s.lower().strip().translate(...)
normalize_chars(s) == str_translate(str_strip(str_lower(s)))

\* user_wins as CREATE TABLE IF NOT EXISTS leaves it on a new store: there,
\* empty (no statement of the program inserts into it)
EmptyWins == [exists |-> TRUE, rows |-> <<>>]
\* the store of a process that has not run init_db yet
NoWins == [exists |-> FALSE, rows |-> <<>>]

\* load_history_to_cache storing the texts as they are
load_history_to_cache_raw(tbl) ==
    [u \in Users |->
        IF ~tbl.exists THEN {}
        ELSE {tbl.rows[i].win_text :
                i \in {j \in DOMAIN tbl.rows : tbl.rows[j].user_id = u}}]

\* load_history_to_cache into the empty dict of the module: the SELECT raises
\* OperationalError when the table does not exist and the function returns;
\* otherwise every row's normalized text is added to the set of the row's
\* user (a user without rows has no entry: the empty set here)
load_history_to_cache(tbl) ==
    [u \in Users |->
        IF ~tbl.exists THEN {}
        ELSE {normalize_chars(tbl.rows[i].win_text) :
                i \in {j \in DOMAIN tbl.rows : tbl.rows[j].user_id = u}}]

-----------------------------------------------------------------------------
\* What a handler sends

Effect(u, kind, arg) == [to |-> u, kind |-> kind, arg |-> arg]
Say(u, kind) == Effect(u, kind, <<>>)

\* outcomes of a GigaChat call and of a database write
GenOutcomes == {"ok", "fail"}
DbOutcomes == {"ok", "fail"}

-----------------------------------------------------------------------------
\* Dispatch of a message: the first handler, in registration order, whose
\* filters accept it

MessageRoute(state, m) ==
    IF IsCommand(m, "/start") THEN "cmd_start"
    ELSE IF m.ctype = "text" /\ m.text = HubBrain THEN "hub_brain"
    ELSE IF state = "chatting" THEN "process_personal_ai"
    ELSE IF m.ctype = "text" /\ m.text = HubAction THEN "hub_action"
    ELSE IF m.ctype = "text" /\ m.text = HubArchive THEN "hub_archive"
    ELSE IF state = "waiting_for_problem" THEN "process_perspective_problem"
    ELSE IF state = "waiting_for_goal" THEN "contract_goal"
    ELSE IF state = "waiting_for_deadline" THEN "contract_deadline"
    ELSE IF state = "waiting_for_stake" THEN "contract_stake"
    ELSE IF state = "waiting_for_memory" THEN "legacy_memory"
    ELSE IF state = "waiting_for_lessons" THEN "legacy_lessons"
    ELSE IF state = "waiting_for_q1" THEN "mp_q1"
    ELSE IF state = "waiting_for_q2" THEN "mp_q2"
    ELSE IF state = "waiting_for_q3" THEN "mp_q3"
    ELSE IF m.ctype = "text" /\ m.text = BtnWin THEN "btn_win"
    ELSE IF m.ctype = "web_app_data" THEN "handle_web_app_data"
    ELSE IF m.ctype = "text" /\ m.text = BtnKick THEN "btn_kick"
    ELSE IF IsCommand(m, "/blackbox") THEN "cmd_blackbox"
    ELSE IF m.ctype = "successful_payment" THEN "process_successful_payment"
    ELSE IF m.ctype = "text" THEN "handle_text"
    ELSE IF IsCommand(m, "/test_day") THEN "cmd_test_day"
    ELSE "unhandled"

Routed(u, m, handler) ==
    /\ nEvents < MaxEvents
    /\ MessageRoute(fsm_state[u], m) = handler

\* what every handler execution does to the bookkeeping variables
Handled ==
    /\ nEvents' = nEvents + 1
    /\ UNCHANGED <<now, sched_vars, config_vars, tasks>>

\* FSMContext.set_state, update_data and clear
set_state(u, s) == fsm_state' = [fsm_state EXCEPT ![u] = s]
update_data(u, k, v) == fsm_data' = [fsm_data EXCEPT ![u][k] = v]
clear(u) ==
    /\ fsm_state' = [fsm_state EXCEPT ![u] = NoState]
    /\ fsm_data' = [fsm_data EXCEPT ![u] = EmptyData]

-----------------------------------------------------------------------------
\* Message handlers, in registration order

\* cmd_start: INSERT OR IGNORE the user (a failure is swallowed), then the welcome
cmd_start(u, m, db) ==
    /\ Routed(u, m, "cmd_start")
    /\ users' = IF db = "ok" THEN InsertOrIgnoreUser(users, u) ELSE users
    /\ out' = <<Say(u, "welcome")>>
    /\ raised' = FALSE
    /\ UNCHANGED <<dialogue_vars, contracts, stats>>
    /\ Handled

hub_brain(u, m) ==
    /\ Routed(u, m, "hub_brain")
    /\ out' = <<Say(u, "hub_brain_menu")>>
    /\ raised' = FALSE
    /\ UNCHANGED <<dialogue_vars, store_vars>>
    /\ Handled

\* process_personal_ai ending the session when the generation fails
process_personal_ai_clearing_on_error(u, m, gen) ==
    /\ Routed(u, m, "process_personal_ai")
    /\ IF m.text = None
       THEN /\ raised' = TRUE
            /\ out' = <<>>
            /\ UNCHANGED dialogue_vars
       ELSE IF Lower(m.text) \in ExitKeywords
       THEN /\ out' = <<Say(u, "closing")>>
            /\ clear(u)
            /\ raised' = FALSE
       ELSE /\ out' = IF ~GIGACHAT_CREDENTIALS THEN <<Say(u, "not_connected")>>
                      ELSE IF gen = "ok" THEN <<Say(u, "gen_result")>>
                      ELSE <<Say(u, "gen_error")>>
            /\ raised' = FALSE
            /\ IF GIGACHAT_CREDENTIALS /\ gen # "ok"
               THEN clear(u)
               ELSE UNCHANGED dialogue_vars
    /\ UNCHANGED store_vars
    /\ Handled

\* process_personal_ai: the exit test, then the GigaChat call inside try/except
process_personal_ai(u, m, gen) ==
    /\ Routed(u, m, "process_personal_ai")
    /\ IF m.text = None
       THEN \* None.lower() raises AttributeError
            /\ raised' = TRUE
            /\ out' = <<>>
            /\ UNCHANGED dialogue_vars
       ELSE IF Lower(m.text) \in ExitKeywords
       THEN /\ out' = <<Say(u, "closing")>>
            /\ clear(u)
            /\ raised' = FALSE
       ELSE /\ out' = IF ~GIGACHAT_CREDENTIALS THEN <<Say(u, "not_connected")>>
                      ELSE IF gen = "ok" THEN <<Say(u, "gen_result")>>
                      ELSE <<Say(u, "gen_error")>>
            /\ raised' = FALSE
            /\ UNCHANGED dialogue_vars
    /\ UNCHANGED store_vars
    /\ Handled

hub_action(u, m) ==
    /\ Routed(u, m, "hub_action")
    /\ out' = <<Say(u, "hub_action_menu")>>
    /\ raised' = FALSE
    /\ UNCHANGED <<dialogue_vars, store_vars>>
    /\ Handled

hub_archive(u, m) ==
    /\ Routed(u, m, "hub_archive")
    /\ out' = <<Say(u, "hub_archive_menu")>>
    /\ raised' = FALSE
    /\ UNCHANGED <<dialogue_vars, store_vars>>
    /\ Handled

\* process_perspective_problem: keep the text, show the lenses, keep the state
process_perspective_problem(u, m) ==
    /\ Routed(u, m, "process_perspective_problem")
    /\ update_data(u, "problem", m.text)
    /\ out' = <<Say(u, "lens_choices")>>
    /\ raised' = FALSE
    /\ UNCHANGED <<fsm_state, store_vars>>
    /\ Handled

contract_goal(u, m) ==
    /\ Routed(u, m, "contract_goal")
    /\ update_data(u, "goal", m.text)
    /\ out' = <<Say(u, "prompt_deadline")>>
    /\ set_state(u, "waiting_for_deadline")
    /\ raised' = FALSE
    /\ UNCHANGED store_vars
    /\ Handled

\* a deadline step that returns to the goal step
contract_deadline_reordered(u, m) ==
    /\ Routed(u, m, "contract_deadline")
    /\ update_data(u, "deadline", m.text)
    /\ out' = <<Say(u, "prompt_goal")>>
    /\ set_state(u, "waiting_for_goal")
    /\ raised' = FALSE
    /\ UNCHANGED store_vars
    /\ Handled

contract_deadline(u, m) ==
    /\ Routed(u, m, "contract_deadline")
    /\ update_data(u, "deadline", m.text)
    /\ out' = <<Say(u, "prompt_stake")>>
    /\ set_state(u, "waiting_for_stake")
    /\ raised' = FALSE
    /\ UNCHANGED store_vars
    /\ Handled

\* INSERT INTO contracts (user_id, goal, deadline, stake)
InsertContract(tbl, u, goal, deadline, stake) ==
    Append(tbl, [user_id |-> u, goal |-> goal, deadline |-> deadline, stake |-> stake])

\* contract_stake: data['goal'] and data['deadline'] (KeyError when missing),
\* the insert and the certificate inside try/except, state.clear() after it
contract_stake(u, m, db) ==
    /\ Routed(u, m, "contract_stake")
    /\ Len(contracts) < MaxContracts
    /\ IF fsm_data[u]["goal"] = Absent \/ fsm_data[u]["deadline"] = Absent
       THEN /\ raised' = TRUE
            /\ out' = <<>>
            /\ UNCHANGED <<dialogue_vars, contracts>>
       ELSE /\ raised' = FALSE
            /\ IF db = "ok"
               THEN /\ contracts' = InsertContract(contracts, u, fsm_data[u]["goal"],
                                                   fsm_data[u]["deadline"], m.text)
                    /\ out' = <<Effect(u, "certificate",
                                       <<fsm_data[u]["goal"], fsm_data[u]["deadline"], m.text>>)>>
               ELSE /\ UNCHANGED contracts
                    /\ out' = <<Say(u, "sign_error")>>
            /\ clear(u)
    /\ UNCHANGED <<users, stats>>
    /\ Handled

\* a handler that moves to the lessons step without storing the memory
legacy_memory_without_update(u, m) ==
    /\ Routed(u, m, "legacy_memory")
    /\ out' = <<Say(u, "prompt_lessons")>>
    /\ set_state(u, "waiting_for_lessons")
    /\ raised' = FALSE
    /\ UNCHANGED <<fsm_data, store_vars>>
    /\ Handled

legacy_memory(u, m) ==
    /\ Routed(u, m, "legacy_memory")
    /\ update_data(u, "memory", m.text)
    /\ out' = <<Say(u, "prompt_lessons")>>
    /\ set_state(u, "waiting_for_lessons")
    /\ raised' = FALSE
    /\ UNCHANGED store_vars
    /\ Handled

\* a handler that returns from its except branch, before state.clear()
legacy_lessons_returning_on_error(u, m, gen) ==
    /\ Routed(u, m, "legacy_lessons")
    /\ IF fsm_data[u]["memory"] = Absent
       THEN /\ raised' = TRUE
            /\ out' = <<>>
            /\ UNCHANGED dialogue_vars
       ELSE /\ raised' = FALSE
            /\ out' = <<Say(u, "loading"),
                        IF ~GIGACHAT_CREDENTIALS THEN Say(u, "not_connected")
                        ELSE IF gen = "ok" THEN Say(u, "manifesto_photo")
                        ELSE Say(u, "gen_error")>>
            /\ IF GIGACHAT_CREDENTIALS /\ gen = "fail"
               THEN UNCHANGED dialogue_vars
               ELSE clear(u)
    /\ UNCHANGED store_vars
    /\ Handled

\* legacy_lessons: data['memory'], the placeholder, GigaChat and the image
\* inside try/except, state.clear() after it
legacy_lessons(u, m, gen) ==
    /\ Routed(u, m, "legacy_lessons")
    /\ IF fsm_data[u]["memory"] = Absent
       THEN /\ raised' = TRUE
            /\ out' = <<>>
            /\ UNCHANGED dialogue_vars
       ELSE /\ raised' = FALSE
            /\ out' = <<Say(u, "loading"),
                        IF ~GIGACHAT_CREDENTIALS THEN Say(u, "not_connected")
                        ELSE IF gen = "ok" THEN Say(u, "manifesto_photo")
                        ELSE Say(u, "gen_error")>>
            /\ clear(u)
    /\ UNCHANGED store_vars
    /\ Handled

mp_q1(u, m) ==
    /\ Routed(u, m, "mp_q1")
    /\ update_data(u, "q1", m.text)
    /\ out' = <<Say(u, "prompt_q2")>>
    /\ set_state(u, "waiting_for_q2")
    /\ raised' = FALSE
    /\ UNCHANGED store_vars
    /\ Handled

mp_q2(u, m) ==
    /\ Routed(u, m, "mp_q2")
    /\ update_data(u, "q2", m.text)
    /\ out' = <<Say(u, "prompt_q3")>>
    /\ set_state(u, "waiting_for_q3")
    /\ raised' = FALSE
    /\ UNCHANGED store_vars
    /\ Handled

\* mp_q3: the placeholder, then data['q1'] and data['q2'] while the prompt is
\* built (KeyError when missing), GigaChat and the image inside try/except,
\* state.clear() after it
mp_q3(u, m, gen) ==
    /\ Routed(u, m, "mp_q3")
    /\ IF fsm_data[u]["q1"] = Absent \/ fsm_data[u]["q2"] = Absent
       THEN /\ raised' = TRUE
            /\ out' = <<Say(u, "loading")>>
            /\ UNCHANGED dialogue_vars
       ELSE /\ raised' = FALSE
            /\ out' = <<Say(u, "loading"),
                        IF ~GIGACHAT_CREDENTIALS THEN Say(u, "not_connected")
                        ELSE IF gen = "ok" THEN Say(u, "mindprint_photo")
                        ELSE Say(u, "gen_error")>>
            /\ clear(u)
    /\ UNCHANGED store_vars
    /\ Handled

btn_win(u, m) ==
    /\ Routed(u, m, "btn_win")
    /\ out' = <<Say(u, "quick_win")>>
    /\ raised' = FALSE
    /\ UNCHANGED <<dialogue_vars, store_vars>>
    /\ Handled

btn_kick(u, m) ==
    /\ Routed(u, m, "btn_kick")
    /\ out' = <<Say(u, "kick_stub")>>
    /\ raised' = FALSE
    /\ UNCHANGED <<dialogue_vars, store_vars>>
    /\ Handled

\* cmd_blackbox: the teaser with the blackbox_unlock button
cmd_blackbox(u, m) ==
    /\ Routed(u, m, "cmd_blackbox")
    /\ out' = <<Say(u, "blackbox_init"), Say(u, "blackbox_teaser")>>
    /\ raised' = FALSE
    /\ UNCHANGED <<dialogue_vars, store_vars>>
    /\ Handled

\* handle_text: commands are ignored; the GigaChat call is not inside a try
handle_text(u, m, gen) ==
    /\ Routed(u, m, "handle_text")
    /\ IF StartsWithSlash(m.text) \/ ~GIGACHAT_CREDENTIALS
       THEN /\ out' = <<>>
            /\ raised' = FALSE
       ELSE IF gen = "ok"
       THEN /\ out' = <<Say(u, "gen_result")>>
            /\ raised' = FALSE
       ELSE /\ out' = <<>>
            /\ raised' = TRUE
    /\ UNCHANGED <<dialogue_vars, store_vars>>
    /\ Handled

\* a message no handler accepts (no text, no state): the dispatcher drops it
unhandled(u, m) ==
    /\ Routed(u, m, "unhandled")
    /\ out' = <<>>
    /\ raised' = FALSE
    /\ UNCHANGED <<dialogue_vars, store_vars>>
    /\ Handled

-----------------------------------------------------------------------------
\* Callback-query handlers.  Each filters on callback.data alone, so the
\* data selects the handler in every FSM state.

FlowEntries == {"feature_ai_chat", "feature_perspective", "contract_new",
                "feature_legacy", "feature_mindprint"}

\* the lens buttons of process_perspective_problem, and one persp_ value that
\* is none of them
Lenses == {"old", "elon", "critic"}
PerspChoices == {"old", "critic", "cancel", "bogus"}

Callback(u, data) == nEvents < MaxEvents

\* an entry handler: callback.message.answer(prompt), then state.set_state(first)
EnterFlow(u, prompt, first) ==
    /\ out' = <<Say(u, prompt)>>
    /\ set_state(u, first)
    /\ raised' = FALSE
    /\ UNCHANGED <<fsm_data, store_vars>>
    /\ Handled

start_personal_ai(u) ==
    /\ Callback(u, "feature_ai_chat")
    /\ EnterFlow(u, "prompt_chat", "chatting")

start_perspective(u) ==
    /\ Callback(u, "feature_perspective")
    /\ EnterFlow(u, "prompt_problem", "waiting_for_problem")

\* an entry handler that prompts without opening the session
cb_contract_new_without_state(u) ==
    /\ Callback(u, "contract_new")
    /\ out' = <<Say(u, "prompt_goal")>>
    /\ raised' = FALSE
    /\ UNCHANGED <<dialogue_vars, store_vars>>
    /\ Handled

cb_contract_new(u) ==
    /\ Callback(u, "contract_new")
    /\ EnterFlow(u, "prompt_goal", "waiting_for_goal")

\* a text as long as the list may be (Telegram takes up to 4096 characters)
LongTextLen == 4000
LongText == "LONG"

\* len() of a text of the contract dialogue: the long text, or a one-letter text
TextLen(s) == IF s = LongText THEN LongTextLen ELSE 1

\* len("🗂 **ВСЕ ТВОИ КОНТРАКТЫ:**\n\n")
HeaderLen == 27
\* len() of one entry of the list around its three texts, for an index of one
\* digit and the ten characters of created_at[:10]
EntryOverhead == 73
\* if len(text) > 4000
ListLimit == 4000

\* SELECT goal, deadline, stake, created_at FROM contracts WHERE user_id = u
\* ORDER BY id DESC
RECURSIVE SelectContracts(_, _)
SelectContracts(tbl, u) ==
    IF tbl = <<>> THEN <<>>
    ELSE LET older == SelectContracts(SubSeq(tbl, 1, Len(tbl) - 1), u)
             r == tbl[Len(tbl)]
         IN  IF r.user_id = u THEN <<r>> \o older ELSE older

\* what an entry of the list shows of a row
EntryOf(r) == <<r.goal, r.deadline, r.stake>>
EntryLen(r) == EntryOverhead + TextLen(r.goal) + TextLen(r.deadline) + TextLen(r.stake)

\* len(text) after the loop over rows
RECURSIVE ListLen(_)
ListLen(rows) ==
    IF rows = <<>> THEN HeaderLen ELSE EntryLen(rows[1]) + ListLen(Tail(rows))

\* the entries that text[:4000] still holds whole, given the characters left
RECURSIVE WholeEntries(_, _)
WholeEntries(rows, room) ==
    IF rows = <<>> \/ EntryLen(rows[1]) > room THEN <<>>
    ELSE <<EntryOf(rows[1])>> \o WholeEntries(Tail(rows), room - EntryLen(rows[1]))

\* the text edit_text is called with
ListText(rows) ==
    IF ListLen(rows) > ListLimit
    THEN <<WholeEntries(rows, ListLimit - HeaderLen), "cut">>
    ELSE <<WholeEntries(rows, ListLen(rows) - HeaderLen), "whole">>

\* cb_contract_list: the SELECT, then the empty-archive text or the list; an
\* exception is answered with the error text
cb_contract_list(u, db) ==
    /\ Callback(u, "contract_list")
    /\ out' = IF db # "ok" THEN <<Say(u, "archive_error")>>
              ELSE IF SelectContracts(contracts, u) = <<>> THEN <<Say(u, "archive_empty")>>
              ELSE <<Effect(u, "contract_list", ListText(SelectContracts(contracts, u)))>>
    /\ raised' = FALSE
    /\ UNCHANGED <<dialogue_vars, store_vars>>
    /\ Handled

start_legacy(u) ==
    /\ Callback(u, "feature_legacy")
    /\ EnterFlow(u, "prompt_memory", "waiting_for_memory")

start_mindprint(u) ==
    /\ Callback(u, "feature_mindprint")
    /\ EnterFlow(u, "prompt_q1", "waiting_for_q1")

\* start_kick: the static text, replaced by GigaChat's when the call succeeds
\* (a failure is swallowed); then the voice message, or the text when edge_tts
\* fails
start_kick(u, gen, tts) ==
    /\ Callback(u, "feature_kick")
    /\ LET text == IF GIGACHAT_CREDENTIALS /\ gen = "ok" THEN "generated" ELSE "static"
       IN  out' = <<Effect(u, IF tts = "ok" THEN "kick_voice" ELSE "voice_error", <<text>>)>>
    /\ raised' = FALSE
    /\ UNCHANGED <<dialogue_vars, store_vars>>
    /\ Handled

\* a lens handler that treats cancel like any other value
callback_perspective_choice_without_cancel(u, choice, gen) ==
    /\ Callback(u, "persp_")
    /\ out' = <<Say(u, "loading")>> \o
                (IF ~GIGACHAT_CREDENTIALS THEN <<>>
                 ELSE IF gen = "ok"
                 THEN <<Effect(u, "opinion",
                               <<IF choice \in Lenses THEN choice ELSE "mentor",
                                 fsm_data[u]["problem"]>>)>>
                 ELSE <<Say(u, "gen_error")>>)
    /\ clear(u)
    /\ raised' = FALSE
    /\ UNCHANGED store_vars
    /\ Handled

\* callback_perspective_choice: cancel deletes the message and clears; any other
\* value edits the message to the placeholder, calls GigaChat inside
\* try/except when credentials are set, and clears
callback_perspective_choice(u, choice, gen) ==
    /\ Callback(u, "persp_")
    /\ IF choice = "cancel"
       THEN out' = <<Say(u, "delete_message")>>
       ELSE out' = <<Say(u, "loading")>> \o
                   (IF ~GIGACHAT_CREDENTIALS THEN <<>>
                    ELSE IF gen = "ok"
                    THEN <<Effect(u, "opinion",
                                  <<IF choice \in Lenses THEN choice ELSE "mentor",
                                    fsm_data[u]["problem"]>>)>>
                    ELSE <<Say(u, "gen_error")>>)
    /\ clear(u)
    /\ raised' = FALSE
    /\ UNCHANGED store_vars
    /\ Handled

-----------------------------------------------------------------------------
\* Subscription

\* days=30 in both activation paths
SubscriptionDays == 30

\* UPDATE users SET subscription_status='active', subscription_expiry=?,
\* subscription_start_date=? WHERE user_id=?
ActivateSubscription(tbl, u, t) ==
    IF ~HasRow(tbl, u) THEN tbl
    ELSE [tbl EXCEPT ![u].subscription_status = "active",
                     ![u].subscription_expiry = isoformat(t + SubscriptionDays * TicksPerDay),
                     ![u].subscription_start_date = isoformat(t)]

\* cb_blackbox_unlock_dev: the SELECT and the UPDATE share one try whose
\* except passes, so the UPDATE runs only when the SELECT did not raise
cb_blackbox_unlock_dev(u, gen) ==
    /\ users' = IF SelectFails({"current_self", "fear", "dream", "price"})
                THEN users
                ELSE ActivateSubscription(users, u, now)
    /\ out' = <<Say(u, "access_granted"),
                IF ~GIGACHAT_CREDENTIALS THEN Say(u, "report_simulated")
                ELSE IF gen = "ok" THEN Say(u, "report_generated")
                ELSE Say(u, "gen_error")>>

\* start_payment: the dev bypass in TEST_MODE; otherwise answer_invoice, in a
\* try of its own, twice
start_payment(u, gen) ==
    /\ Callback(u, "blackbox_unlock")
    /\ IF PAYMENT_TOKEN = "TEST_MODE"
       THEN cb_blackbox_unlock_dev(u, gen)
       ELSE /\ out' = <<Say(u, "invoice"), Say(u, "invoice")>>
            /\ UNCHANGED users
    /\ raised' = FALSE
    /\ UNCHANGED <<dialogue_vars, contracts, stats>>
    /\ Handled

\* process_successful_payment: the receipt, the UPDATE (a failure is swallowed),
\* the pointer to the report
process_successful_payment(u, m, db) ==
    /\ Routed(u, m, "process_successful_payment")
    /\ PAYMENT_TOKEN # "TEST_MODE"
    /\ users' = IF db = "ok" THEN ActivateSubscription(users, u, now) ELSE users
    /\ out' = <<Say(u, "payment_received"), Say(u, "report_pointer")>>
    /\ raised' = FALSE
    /\ UNCHANGED <<dialogue_vars, contracts, stats>>
    /\ Handled

-----------------------------------------------------------------------------
\* The fixed programme and the scheduled scans

\* the last key of PROTOCOL_7
ProtocolDays == 7

NoContent == <<"none", 0>>

\* PROTOCOL_7.get(day): the day's entry (its title and task), or None
PROTOCOL_7_get(day) ==
    IF day \in 1..ProtocolDays THEN <<"day", day>> ELSE NoContent

\* (a - b).days of two datetimes: timedelta keeps 0 <= seconds < one day, so
\* days is the floor of the difference in days
timedelta_days(a, b) ==
    LET diff == a - b
        rest == diff % TicksPerDay
    IN  (diff - rest) \div TicksPerDay

\* a day number that counts the first day as day 0
DayNumber_from_zero(start_date, t) ==
    IF start_date # NULL
    THEN timedelta_days(t, fromisoformat(start_date))
    ELSE 1

\* day_num of morning_protocol: 1, replaced when start_date is set (and parses)
DayNumber(start_date, t) ==
    IF start_date # NULL
    THEN timedelta_days(t, fromisoformat(start_date)) + 1
    ELSE 1

RECURSIVE InIdOrder(_)
\* the ids of a set of users in rowid order
InIdOrder(S) ==
    IF S = {} THEN <<>>
    ELSE LET first == CHOOSE x \in S : \A y \in S : x <= y
         IN  <<first>> \o InIdOrder(S \ {first})

\* cursor.fetchall() of SELECT ... FROM users: one tuple per row
FetchAllUsers ==
    LET ids == InIdOrder(DOMAIN users)
    IN  [i \in 1..Len(ids) |->
            [uid |-> ids[i],
             start_date |-> users[ids[i]].subscription_start_date,
             status |-> users[ids[i]].subscription_status]]

Idle == [kind |-> "none", running |-> FALSE, rows |-> <<>>, pos |-> 1]

\* a firing: the SELECT inside the outer try; when it raises, the outer except
\* logs and the function returns without entering the loop
Fire(kind, cols) ==
    /\ LET rows == IF SelectFails(cols) THEN <<>> ELSE FetchAllUsers
       IN  scan' = [kind |-> kind, running |-> rows # <<>>, rows |-> rows, pos |-> 1]
    /\ attempts' = <<>>
    /\ out' = <<>>
    /\ raised' = FALSE
    /\ UNCHANGED <<dialogue_vars, store_vars, now, nEvents, config_vars, tasks>>

\* apscheduler starts a job only when its previous run has ended, and the two
\* firing times are fifteen hours apart
morning_protocol ==
    /\ ~scan.running
    /\ Fire("morning", {"user_id", "full_name", "dream", "fear",
                        "subscription_start_date", "subscription_status"})

evening_report ==
    /\ ~scan.running
    /\ Fire("evening", {"user_id", "full_name", "price"})

\* a loop body that sends the day's catalogue entry whatever the status
MorningMessage_without_status_test(r, gen) ==
    LET day_num == DayNumber(r.start_date, now)
        content == PROTOCOL_7_get(day_num)
        locked == IF r.status # "active" THEN "locked" ELSE "open"
    IN  IF content # NoContent
        THEN <<Effect(r.uid, "morning_catalogue", content)>>
        ELSE IF ~GIGACHAT_CREDENTIALS
        THEN <<Effect(r.uid, "morning_static", <<locked>>)>>
        ELSE IF gen = "ok"
        THEN <<Effect(r.uid, "morning_generated", <<locked>>)>>
        ELSE <<>>

\* the body of morning_protocol's loop for one fetched row: what it passes to
\* bot.send_message, or <<>> when the GigaChat call raised before the send
MorningMessage(r, gen) ==
    LET day_num == DayNumber(r.start_date, now)
        content == PROTOCOL_7_get(day_num)
        locked == IF r.status # "active" THEN "locked" ELSE "open"
    IN  IF r.status = "active" /\ content # NoContent
        THEN <<Effect(r.uid, "morning_catalogue", content)>>
        ELSE IF ~GIGACHAT_CREDENTIALS
        THEN <<Effect(r.uid, "morning_static", <<locked>>)>>
        ELSE IF gen = "ok"
        THEN <<Effect(r.uid, "morning_generated", <<locked>>)>>
        ELSE <<>>

\* the callback data of the three buttons evening_report builds
EveningControl == <<"report_100", "report_50", "report_0">>

\* the body of evening_report's loop for one fetched row
EveningMessage(r, gen) ==
    IF ~GIGACHAT_CREDENTIALS
    THEN <<Effect(r.uid, "evening_static", EveningControl)>>
    ELSE IF gen = "ok"
    THEN <<Effect(r.uid, "evening_generated", EveningControl)>>
    ELSE <<>>

\* one iteration of the running scan's loop, inside its per-user try/except:
\* gen is the outcome of the GigaChat call, send that of bot.send_message;
\* after the last row the function returns and the fetched rows are dropped
scan_user(gen, send) ==
    /\ scan.running
    /\ LET r == scan.rows[scan.pos]
           msg == IF scan.kind = "morning" THEN MorningMessage(r, gen)
                  ELSE EveningMessage(r, gen)
       IN  /\ out' = msg
           /\ attempts' = Append(attempts,
                                 [uid |-> r.uid,
                                  day_num |-> DayNumber(r.start_date, now),
                                  failed |-> (msg = <<>> \/ send = "fail")])
    /\ scan' = IF scan.pos < Len(scan.rows)
                THEN [scan EXCEPT !.pos = scan.pos + 1]
                ELSE [Idle EXCEPT !.kind = scan.kind]
    /\ raised' = FALSE
    /\ UNCHANGED <<dialogue_vars, store_vars, now, nEvents, config_vars, tasks>>

\* the clock: time passes, nothing is sent
Tick ==
    /\ now < MaxTime
    /\ now' = now + 1
    /\ out' = <<>>
    /\ raised' = FALSE
    /\ UNCHANGED <<dialogue_vars, store_vars, sched_vars, nEvents, config_vars, tasks>>

-----------------------------------------------------------------------------
\* The callbacks of the daily messages

\* datetime.date.today().isoformat(): the stored text of the current date
today_isoformat(t) == <<"date", t \div TicksPerDay>>

\* save_daily_stat: INSERT INTO stats (user_id, date, energy_level)
save_daily_stat(tbl, u, energy) ==
    Append(tbl, [user_id |-> u, date |-> today_isoformat(now), energy_level |-> energy])

\* the values after "report_" on the evening message's buttons, and one that
\* is none of them
ReportChoices == {"100", "50", "0", "bogus"}

\* val_map.get(callback.data.split("_")[1], 0)
val_map_get(choice) ==
    IF choice = "100" THEN 100 ELSE IF choice = "50" THEN 50 ELSE 0

\* a handler that stores the percentage itself
cb_report_log_unscaled(u, choice, db) ==
    /\ Callback(u, "report_")
    /\ Len(stats) < MaxStats
    /\ IF db = "ok"
       THEN /\ stats' = save_daily_stat(stats, u, val_map_get(choice))
            /\ out' = <<Effect(u, "data_recorded", <<"reply_markup_none", val_map_get(choice)>>)>>
            /\ raised' = FALSE
       ELSE /\ UNCHANGED stats
            /\ out' = <<>>
            /\ raised' = TRUE
    /\ UNCHANGED <<dialogue_vars, users, contracts>>
    /\ Handled

\* cb_report_log: save_daily_stat(user, int(val / 10)), which re-raises a
\* failed INSERT, then edit_text with the recorded value and no reply_markup
cb_report_log(u, choice, db) ==
    /\ Callback(u, "report_")
    /\ Len(stats) < MaxStats
    /\ IF db = "ok"
       THEN /\ stats' = save_daily_stat(stats, u, val_map_get(choice) \div 10)
            /\ out' = <<Effect(u, "data_recorded", <<"reply_markup_none", val_map_get(choice)>>)>>
            /\ raised' = FALSE
       ELSE /\ UNCHANGED stats
            /\ out' = <<>>
            /\ raised' = TRUE
    /\ UNCHANGED <<dialogue_vars, users, contracts>>
    /\ Handled

\* cmd_test_day: the catalogue entry of the day after the command, with the
\* complete_day_ button, or the notice that the day has no content; every
\* text is accepted by handle_text's F.text before this handler is asked
cmd_test_day(u, m, day) ==
    /\ Routed(u, m, "cmd_test_day")
    /\ out' = IF PROTOCOL_7_get(day) # NoContent
              THEN <<Effect(u, "test_catalogue", PROTOCOL_7_get(day))>>
              ELSE <<Say(u, "no_content")>>
    /\ raised' = FALSE
    /\ UNCHANGED <<dialogue_vars, store_vars>>
    /\ Handled

\* the day whose completion ends the programme (if day == 7)
CompletionDay == 7

\* the day numbers after "complete_day_": one inside the programme and its last
CompletedDays == {1, CompletionDay}

\* UPDATE users SET last_completed_day = ? WHERE user_id = ?
SetLastCompletedDay(tbl, u, day) ==
    IF ~HasRow(tbl, u) THEN tbl
    ELSE [tbl EXCEPT ![u].last_completed_day = day]

\* cb_complete_day: the UPDATE, the toast, the edit that marks the message
\* done and drops its button, and for day 7 the completion notice; the except
\* around all of it answers with the error
cb_complete_day(u, day, db) ==
    /\ Callback(u, "complete_day_")
    /\ IF db = "ok"
       THEN /\ users' = SetLastCompletedDay(users, u, day)
            /\ out' = <<Effect(u, "day_counted", <<"day", day>>),
                        Effect(u, "marked_done", <<"reply_markup_none", day>>)>> \o
                      (IF day = CompletionDay THEN <<Say(u, "protocol_completed")>> ELSE <<>>)
       ELSE /\ UNCHANGED users
            /\ out' = <<Say(u, "error_alert")>>
    /\ raised' = FALSE
    /\ UNCHANGED <<dialogue_vars, contracts, stats>>
    /\ Handled

-----------------------------------------------------------------------------
\* Start-up

\* what the text of the exception init_db's outer except catches is, as far
\* as the handler tests it: no exception, one whose text has neither tested
\* word, and sqlite's report of a schema it cannot parse
InitErrors == {"none", "database is locked", "malformed database schema: syntax error"}

\* "syntax error" in str(e) or "values" in str(e)
BrokenSchemaDetected(e) == e = "malformed database schema: syntax error"

\* init_db on the store of an earlier run: CREATE TABLE IF NOT EXISTS skips
\* the tables and every ALTER TABLE ADD COLUMN raises 'duplicate column' into
\* its own except, so tables, columns and rows stay; when the outer except
\* finds one of its two words in the error it removes the database file and
\* calls init_db again, which creates the tables empty
init_db(e) ==
    IF BrokenSchemaDetected(e)
    THEN /\ users' = [u \in {} |-> DefaultRow]
         /\ contracts' = <<>>
         /\ stats' = <<>>
         /\ user_wins' = EmptyWins
    ELSE /\ UNCHANGED store_vars
         /\ user_wins' = IF e = "none" THEN [user_wins EXCEPT !.exists = TRUE]
                         ELSE user_wins

\* a start of the process on the existing store: load_history_to_cache while
\* the module is loaded, then main: init_db, a new scheduler and a new
\* Dispatcher(storage=MemoryStorage()), polling
main(e) ==
    /\ nEvents < MaxEvents
    /\ nEvents' = nEvents + 1
    /\ HISTORY_CACHE' = load_history_to_cache(user_wins)
    /\ init_db(e)
    /\ fsm_state' = [u \in Users |-> NoState]
    /\ fsm_data' = [u \in Users |-> EmptyData]
    /\ scan' = Idle
    /\ attempts' = <<>>
    /\ tasks' = <<>>
    /\ out' = <<>>
    /\ raised' = FALSE
    /\ UNCHANGED <<now, GIGACHAT_CREDENTIALS, PAYMENT_TOKEN>>

-----------------------------------------------------------------------------
\* The event loop.  main awaits dp.start_polling(bot), which handles every
\* update in an asyncio task of its own, and Dispatcher(storage=MemoryStorage())
\* sets no events isolation: a handler suspended at an await of a Bot API
\* request shares the loop with the handlers of later updates, those of the
\* same user included.  MemoryStorage's coroutines never suspend.  A call that
\* is not awaited (giga.chat) keeps the loop's only thread until it returns.
\* The handlers above are the executions that run without another in between;
\* here two of them are cut at their suspension points.

\* a handler execution in flight: where it stands, and the locals it holds
Task(u, handler, pc, choice, problem) ==
    [user |-> u, handler |-> handler, pc |-> pc, choice |-> choice, problem |-> problem]

\* the loop's thread is inside the synchronous giga.chat
Blocked == \E i \in DOMAIN tasks : tasks[i].pc = "in_giga_chat"

TasksOf(u) == {i \in DOMAIN tasks : tasks[i].user = u}

Spawn(t) == tasks' = Append(tasks, t)
Finish(i) == tasks' = [j \in 1..(Len(tasks) - 1) |-> IF j < i THEN tasks[j] ELSE tasks[j + 1]]
Advance(i, pc) == tasks' = [tasks EXCEPT ![i].pc = pc]

\* the loop starts the task of a new update
Started ==
    /\ ~Blocked
    /\ Len(tasks) < MaxTasks
    /\ nEvents' = nEvents + 1
    /\ raised' = FALSE
    /\ UNCHANGED <<store_vars, now, sched_vars, config_vars>>

\* the loop resumes task i
Resumed(i) ==
    /\ i \in DOMAIN tasks
    /\ ~Blocked
    /\ raised' = FALSE
    /\ UNCHANGED <<store_vars, now, sched_vars, nEvents, config_vars>>

\* contract_goal up to its suspension: state.update_data(goal=...), then the
\* request of message.answer
contract_goal_until_answer(u, m) ==
    /\ Routed(u, m, "contract_goal")
    /\ Started
    /\ update_data(u, "goal", m.text)
    /\ out' = <<Say(u, "prompt_deadline")>>
    /\ Spawn(Task(u, "contract_goal", "answer", "none", Absent))
    /\ UNCHANGED fsm_state

\* contract_goal after message.answer: state.set_state(waiting_for_deadline)
contract_goal_after_answer(i) ==
    /\ Resumed(i)
    /\ tasks[i].handler = "contract_goal"
    /\ set_state(tasks[i].user, "waiting_for_deadline")
    /\ out' = <<>>
    /\ Finish(i)
    /\ UNCHANGED fsm_data

\* callback_perspective_choice up to its first suspension: message.delete()
\* for cancel; otherwise state.get_data(), data.get("problem", ...) and the
\* request of edit_text with the placeholder
perspective_choice_until_edit(u, choice) ==
    /\ Callback(u, "persp_")
    /\ Started
    /\ IF choice = "cancel"
       THEN /\ out' = <<Say(u, "delete_message")>>
            /\ Spawn(Task(u, "callback_perspective_choice", "delete", choice, Absent))
       ELSE /\ out' = <<Say(u, "loading")>>
            /\ Spawn(Task(u, "callback_perspective_choice", "edit_loading", choice,
                          fsm_data[u]["problem"]))
    /\ UNCHANGED dialogue_vars

\* callback_perspective_choice resumed after an awaited request: state.clear()
\* after the delete, after the placeholder when no credentials are set, and
\* after the edit that shows the result; with credentials, after the
\* placeholder the thread enters giga.chat
perspective_choice_resumed(i) ==
    /\ Resumed(i)
    /\ tasks[i].handler = "callback_perspective_choice"
    /\ out' = <<>>
    /\ IF tasks[i].pc = "edit_loading" /\ GIGACHAT_CREDENTIALS
       THEN /\ Advance(i, "in_giga_chat")
            /\ UNCHANGED dialogue_vars
       ELSE /\ clear(tasks[i].user)
            /\ Finish(i)

\* giga.chat returns or raises: the request of edit_text with the answer or
\* with the error
giga_chat_returns(i, gen) ==
    /\ i \in DOMAIN tasks
    /\ tasks[i].pc = "in_giga_chat"
    /\ out' = IF gen = "ok"
              THEN <<Effect(tasks[i].user, "opinion",
                            <<IF tasks[i].choice \in Lenses THEN tasks[i].choice ELSE "mentor",
                              tasks[i].problem>>)>>
              ELSE <<Say(tasks[i].user, "gen_error")>>
    /\ Advance(i, "edit_result")
    /\ raised' = FALSE
    /\ UNCHANGED <<dialogue_vars, store_vars, now, sched_vars, nEvents, config_vars>>

-----------------------------------------------------------------------------
\* Specifications

TypeOK ==
    /\ fsm_state \in [Users -> States]
    /\ \A u \in Users : DOMAIN fsm_data[u] = Keys
    /\ nEvents \in 0..MaxEvents
    /\ now \in 0..(MaxTime + SubscriptionDays * TicksPerDay + 1)
    /\ Len(contracts) <= MaxContracts
    /\ Len(tasks) <= MaxTasks
    /\ Len(stats) <= MaxStats

InitCommon ==
    /\ fsm_state = [u \in Users |-> NoState]
    /\ fsm_data = [u \in Users |-> EmptyData]
    /\ users = [u \in {} |-> DefaultRow]
    /\ contracts = <<>>
    /\ out = <<>>
    /\ raised = FALSE
    /\ now = 0
    /\ scan = Idle
    /\ attempts = <<>>
    /\ nEvents = 0
    /\ tasks = <<>>
    /\ stats = <<>>
    /\ user_wins = EmptyWins
    /\ HISTORY_CACHE = load_history_to_cache(user_wins)

\* the process after start-up, for either setting of the two environment variables
Init ==
    /\ InitCommon
    /\ GIGACHAT_CREDENTIALS \in BOOLEAN
    /\ PAYMENT_TOKEN \in {"TEST_MODE", "REAL"}

\* the dispatcher handing message m of user u to the handler it is routed to,
\* for the handlers a message can reach while a flow is in progress
FlowDispatch(u, m) ==
    \/ \E db \in DbOutcomes : cmd_start(u, m, db)
    \/ hub_brain(u, m)
    \/ \E gen \in GenOutcomes : process_personal_ai(u, m, gen)
    \/ hub_action(u, m)
    \/ process_perspective_problem(u, m)
    \/ contract_goal(u, m)
    \/ contract_deadline(u, m)
    \/ \E db \in DbOutcomes : contract_stake(u, m, db)
    \/ legacy_memory(u, m)
    \/ \E gen \in GenOutcomes : legacy_lessons(u, m, gen)
    \/ mp_q1(u, m)
    \/ mp_q2(u, m)
    \/ \E gen \in GenOutcomes : mp_q3(u, m, gen)
    \/ \E gen \in GenOutcomes : handle_text(u, m, gen)
    \/ unhandled(u, m)

\* the dispatcher handing a callback query of user u to its handler
FlowCallback(u) ==
    \/ start_personal_ai(u)
    \/ start_perspective(u)
    \/ cb_contract_new(u)
    \/ start_legacy(u)
    \/ start_mindprint(u)
    \/ \E gen \in GenOutcomes, tts \in GenOutcomes : start_kick(u, gen, tts)
    \/ \E choice \in PerspChoices, gen \in GenOutcomes :
            callback_perspective_choice(u, choice, gen)

FlowStep(M) ==
    \E u \in Users :
        \/ \E m \in M : FlowDispatch(u, m)
        \/ FlowCallback(u)

\* the menu handlers registered after the flows' handlers
MenuStep(M) ==
    \E u \in Users, m \in M :
        \/ hub_archive(u, m)
        \/ btn_win(u, m)
        \/ btn_kick(u, m)
        \/ cmd_blackbox(u, m)

\* the dialogue: one representative of every way a message is routed while a
\* flow is in progress (an answer, an exit keyword in two cases, /start, the
\* hub label registered before every flow and one registered after Personal
\* AI), and a message without text
DialogueMessages ==
    {Message("text", t) : t \in {"a", "b", "stop", "STOP", "/start", HubBrain, HubAction}}
        \cup {Photo}

InitDialogue ==
    /\ InitCommon
    /\ GIGACHAT_CREDENTIALS \in BOOLEAN
    /\ PAYMENT_TOKEN = "TEST_MODE"

DialogueNext == FlowStep(DialogueMessages)

SpecDialogue == InitDialogue /\ [][DialogueNext]_vars

\* messages of the programme: /start and Telegram's payment receipt
ProgramMessages == {Message("text", "/start"), SuccessfulPayment}

\* the programme: registration, activation, the clock and the two scans
ProgramNext ==
    \/ \E u \in Users, m \in ProgramMessages, db \in DbOutcomes : cmd_start(u, m, db)
    \/ \E u \in Users, gen \in GenOutcomes : start_payment(u, gen)
    \/ \E u \in Users, m \in ProgramMessages, db \in DbOutcomes :
            process_successful_payment(u, m, db)
    \/ morning_protocol
    \/ evening_report
    \/ \E gen \in GenOutcomes, send \in GenOutcomes : scan_user(gen, send)
    \/ Tick

SpecProgram == Init /\ [][ProgramNext]_vars

AllMessages == TextMessages \cup {Photo, SuccessfulPayment}

Next ==
    \/ FlowStep(AllMessages)
    \/ MenuStep(AllMessages)
    \/ ProgramNext
    \/ \E u \in Users, db \in DbOutcomes : cb_contract_list(u, db)

Spec == Init /\ [][Next]_vars

\* the clock of the model of the daily messages' callbacks
TrackingTick == now < MaxTrackingTime /\ Tick

\* the daily messages' callbacks: registration, the clock, an evening-score
\* selection, a completed day, and a restart of the process
TrackingNext ==
    \/ \E u \in Users, db \in DbOutcomes : cmd_start(u, Message("text", "/start"), db)
    \/ \E u \in Users, choice \in ReportChoices, db \in DbOutcomes : cb_report_log(u, choice, db)
    \/ \E u \in Users, day \in CompletedDays, db \in DbOutcomes : cb_complete_day(u, day, db)
    \/ \E e \in InitErrors : main(e)
    \/ TrackingTick

SpecTracking == InitDialogue /\ [][TrackingNext]_vars

\* the clock: a whole subscription period and one more tick pass at once
PeriodPasses ==
    /\ now < MaxTrackingTime
    /\ now' = now + SubscriptionDays * TicksPerDay + 1
    /\ out' = <<>>
    /\ raised' = FALSE
    /\ UNCHANGED <<dialogue_vars, store_vars, sched_vars, nEvents, config_vars, tasks>>

\* the texts of the contract dialogue
ContractMessages == {Message("text", "a"), Message("text", LongText)}

\* rows an earlier run of the contract flow has left in the table
ContractRows ==
    [user_id : Users, goal : {"a", LongText}, deadline : {"a"}, stake : {"a"}]

\* the process started on a contracts table of earlier runs
InitContracts ==
    /\ fsm_state = [u \in Users |-> NoState]
    /\ fsm_data = [u \in Users |-> EmptyData]
    /\ users = [u \in {} |-> DefaultRow]
    /\ \E n \in 0..MaxContracts : contracts \in [1..n -> ContractRows]
    /\ out = <<>>
    /\ raised = FALSE
    /\ now = 0
    /\ scan = Idle
    /\ attempts = <<>>
    /\ nEvents = 0
    /\ tasks = <<>>
    /\ stats = <<>>
    /\ user_wins = EmptyWins
    /\ HISTORY_CACHE = load_history_to_cache(user_wins)
    /\ GIGACHAT_CREDENTIALS = FALSE
    /\ PAYMENT_TOKEN = "TEST_MODE"

\* the contract flow and the list of contracts
ContractsNext ==
    \/ \E u \in Users : cb_contract_new(u)
    \/ \E u \in Users, m \in ContractMessages : contract_goal(u, m)
    \/ \E u \in Users, m \in ContractMessages : contract_deadline(u, m)
    \/ \E u \in Users, m \in ContractMessages, db \in DbOutcomes : contract_stake(u, m, db)
    \/ \E u \in Users, db \in DbOutcomes : cb_contract_list(u, db)

SpecContracts == InitContracts /\ [][ContractsNext]_vars

\* rows a user_wins table of the history model holds at most
MaxWins == 2
\* characters a win text drawn from all texts has at most
MaxLen == 3

\* win texts whose normalized forms coincide, and two that differ from them
SampleTexts == {<<"a">>, <<"A">>, <<"a", "!">>, <<" ", "a">>, <<"!">>, <<"a", "a">>}
\* every text of up to MaxLen characters
AllTexts == UNION {[1..n -> Chars] : n \in 0..MaxLen}

WinRows(texts) == [user_id : Users, win_text : texts]

\* the user_wins table the process is started on: none, up to MaxWins rows of
\* the sample texts, or one row of any text
WinsTables ==
    {NoWins}
        \cup {[exists |-> TRUE, rows |-> r] :
                r \in UNION {[1..n -> WinRows(SampleTexts)] : n \in 0..MaxWins}}
        \cup {[exists |-> TRUE, rows |-> <<r>>] : r \in WinRows(AllTexts)}

\* the module before load_history_to_cache is called (HISTORY_CACHE = {}),
\* on a store whose user_wins table is any of WinsTables
InitHistory ==
    /\ fsm_state = [u \in Users |-> NoState]
    /\ fsm_data = [u \in Users |-> EmptyData]
    /\ users = [u \in {} |-> DefaultRow]
    /\ contracts = <<>>
    /\ out = <<>>
    /\ raised = FALSE
    /\ now = 0
    /\ scan = Idle
    /\ attempts = <<>>
    /\ nEvents = 0
    /\ tasks = <<>>
    /\ stats = <<>>
    /\ user_wins \in WinsTables
    /\ HISTORY_CACHE = [u \in Users |-> {}]
    /\ GIGACHAT_CREDENTIALS = FALSE
    /\ PAYMENT_TOKEN = "TEST_MODE"

\* starts of the process
HistoryNext == \E e \in InitErrors : main(e)

SpecHistory == InitHistory /\ [][HistoryNext]_vars

\* the process with a real payment token
InitReal ==
    /\ InitCommon
    /\ GIGACHAT_CREDENTIALS \in BOOLEAN
    /\ PAYMENT_TOKEN = "REAL"

\* the messages that could bring catalogue content: the test command, and
\* the payment receipt that makes a user active
CatalogueMessages == {Message("text", "/test_day"), Message("text", "/start"),
                      SuccessfulPayment}

\* the ways to the catalogue: registration, payment, the test command, a
\* completed day, the clock (by ticks and by a subscription period) and the
\* morning scan
CatalogueNext ==
    \/ \E u \in Users, m \in CatalogueMessages, db \in DbOutcomes : cmd_start(u, m, db)
    \/ \E u \in Users, m \in CatalogueMessages, db \in DbOutcomes :
            process_successful_payment(u, m, db)
    \/ \E u \in Users, m \in CatalogueMessages, gen \in GenOutcomes : handle_text(u, m, gen)
    \/ \E u \in Users, day \in CompletedDays, db \in DbOutcomes : cb_complete_day(u, day, db)
    \/ morning_protocol
    \/ \E gen \in GenOutcomes, send \in GenOutcomes : scan_user(gen, send)
    \/ TrackingTick
    \/ PeriodPasses

SpecCatalogue == InitReal /\ [][CatalogueNext]_vars

\* messages of the event loop's model: two answers
LoopMessages == {Message("text", t) : t \in {"a", "b"}}

\* the handling of an update of user u starts
Begins(u) ==
    \/ ~Blocked /\ cb_contract_new(u)
    \/ ~Blocked /\ start_perspective(u)
    \/ \E m \in LoopMessages : ~Blocked /\ process_perspective_problem(u, m)
    \/ \E m \in LoopMessages : contract_goal_until_answer(u, m)
    \/ \E choice \in PerspChoices : perspective_choice_until_edit(u, choice)

\* the event loop: it starts the task of an update, resumes a suspended task,
\* or sits in giga.chat until the call returns
LoopNext ==
    \/ \E u \in Users : Begins(u)
    \/ \E i \in 1..MaxTasks : contract_goal_after_answer(i)
    \/ \E i \in 1..MaxTasks : perspective_choice_resumed(i)
    \/ \E i \in 1..MaxTasks, gen \in GenOutcomes : giga_chat_returns(i, gen)

SpecLoop == InitDialogue /\ [][LoopNext]_vars

-----------------------------------------------------------------------------
\* Properties of the dialogue (checked under SpecDialogue)

TextsOf(M) == {m \in M : m.ctype = "text"}

\* C1: for every flow and every step, a text message that is an exit keyword
\* (in any letter case) clears the user's session, sends the closing message
\* and writes nothing to the users or the contracts table.
C1_ExitKeywordClearsEverySession ==
    [][\A u \in Users, m \in TextsOf(DialogueMessages) :
        (fsm_state[u] # NoState /\ Lower(m.text) \in ExitKeywords /\ FlowDispatch(u, m))
            => /\ fsm_state'[u] = NoState
               /\ fsm_data'[u] = EmptyData
               /\ out' = <<Say(u, "closing")>>
               /\ UNCHANGED store_vars]_vars

\* C2: in the Futures Contract flow, any three text inputs g, d, s supplied in
\* that order after the entry trigger persist exactly one contract record
\* (user, g, d, s) and clear the session: every text at the goal step becomes
\* the goal and moves to the deadline step, every text at the deadline step
\* becomes the deadline and moves to the stake step, and every text at the
\* stake step appends the one record and clears the session.
C2_AnyThreeTextsPersistOneContract ==
    [][\A u \in Users, m \in TextsOf(DialogueMessages) :
        FlowDispatch(u, m) =>
            /\ fsm_state[u] = "waiting_for_goal"
                => /\ fsm_state'[u] = "waiting_for_deadline"
                   /\ fsm_data'[u]["goal"] = m.text
                   /\ contracts' = contracts
            /\ fsm_state[u] = "waiting_for_deadline"
                => /\ fsm_state'[u] = "waiting_for_stake"
                   /\ fsm_data'[u]["deadline"] = m.text
                   /\ fsm_data'[u]["goal"] = fsm_data[u]["goal"]
                   /\ contracts' = contracts
            /\ fsm_state[u] = "waiting_for_stake"
                => /\ contracts' = Append(contracts,
                                          [user_id |-> u,
                                           goal |-> fsm_data[u]["goal"],
                                           deadline |-> fsm_data[u]["deadline"],
                                           stake |-> m.text])
                   /\ fsm_state'[u] = NoState
                   /\ fsm_data'[u] = EmptyData]_vars

\* the steps of the three sequential flows: each step's key, and the step after it
StepKey(step) ==
    IF step = "waiting_for_goal" THEN "goal"
    ELSE IF step = "waiting_for_deadline" THEN "deadline"
    ELSE IF step = "waiting_for_memory" THEN "memory"
    ELSE IF step = "waiting_for_q1" THEN "q1"
    ELSE "q2"

StepAfter(step) ==
    IF step = "waiting_for_goal" THEN "waiting_for_deadline"
    ELSE IF step = "waiting_for_deadline" THEN "waiting_for_stake"
    ELSE IF step = "waiting_for_memory" THEN "waiting_for_lessons"
    ELSE IF step = "waiting_for_q1" THEN "waiting_for_q2"
    ELSE IF step = "waiting_for_q2" THEN "waiting_for_q3"
    ELSE NoState

SequentialSteps == ContractState \cup LegacyState \cup MindprintState
LastSteps == {"waiting_for_stake", "waiting_for_lessons", "waiting_for_q3"}
FirstSteps == {"waiting_for_goal", "waiting_for_memory", "waiting_for_q1"}

\* the handler registered for the step the user is at, handling message m
StepHandling(u, m) ==
    IF fsm_state[u] = "waiting_for_goal" THEN contract_goal(u, m)
    ELSE IF fsm_state[u] = "waiting_for_deadline" THEN contract_deadline(u, m)
    ELSE IF fsm_state[u] = "waiting_for_stake"
    THEN \E db \in DbOutcomes : contract_stake(u, m, db)
    ELSE IF fsm_state[u] = "waiting_for_memory" THEN legacy_memory(u, m)
    ELSE IF fsm_state[u] = "waiting_for_lessons"
    THEN \E gen \in GenOutcomes : legacy_lessons(u, m, gen)
    ELSE IF fsm_state[u] = "waiting_for_q1" THEN mp_q1(u, m)
    ELSE IF fsm_state[u] = "waiting_for_q2" THEN mp_q2(u, m)
    ELSE \E gen \in GenOutcomes : mp_q3(u, m, gen)

FirstPrompt(data) ==
    IF data = "feature_ai_chat" THEN "prompt_chat"
    ELSE IF data = "feature_perspective" THEN "prompt_problem"
    ELSE IF data = "contract_new" THEN "prompt_goal"
    ELSE IF data = "feature_legacy" THEN "prompt_memory"
    ELSE "prompt_q1"

FirstState(data) ==
    IF data = "feature_ai_chat" THEN "chatting"
    ELSE IF data = "feature_perspective" THEN "waiting_for_problem"
    ELSE IF data = "contract_new" THEN "waiting_for_goal"
    ELSE IF data = "feature_legacy" THEN "waiting_for_memory"
    ELSE "waiting_for_q1"

\* the handler registered for an entry trigger's callback data
EntryHandler(u, data) ==
    IF data = "feature_ai_chat" THEN start_personal_ai(u)
    ELSE IF data = "feature_perspective" THEN start_perspective(u)
    ELSE IF data = "contract_new" THEN cb_contract_new(u)
    ELSE IF data = "feature_legacy" THEN start_legacy(u)
    ELSE start_mindprint(u)

\* C4: for every user with no active session and every flow-entry trigger,
\* handling the trigger sends that flow's first prompt exactly once (and
\* nothing else) and leaves the user's session at the first step of that flow;
\* the other users' sessions and the tables are not touched.
C4_EntryTriggerStartsFlow ==
    [][\A u \in Users, data \in FlowEntries :
        (fsm_state[u] = NoState /\ EntryHandler(u, data))
            => /\ out' = <<Say(u, FirstPrompt(data))>>
               /\ fsm_state' = [fsm_state EXCEPT ![u] = FirstState(data)]
               /\ fsm_data' = fsm_data
               /\ ~raised'
               /\ UNCHANGED store_vars]_vars

\* C4 witness: a trigger handled for a user without a session: that user is at
\* the first step of the Futures Contract flow with nothing collected, the
\* goal prompt was the one message sent, and nothing else has happened
C4_Witness ==
    \E u \in Users :
        /\ nEvents = 1
        /\ fsm_state[u] = "waiting_for_goal"
        /\ fsm_data[u] = EmptyData
        /\ out = <<Say(u, "prompt_goal")>>

\* the dispatches that reach a GigaChat call, with the call failing
GenerationFails(u) ==
    \/ \E m \in TextsOf(DialogueMessages) :
        \/ process_personal_ai(u, m, "fail") /\ Lower(m.text) \notin ExitKeywords
        \/ legacy_lessons(u, m, "fail")
        \/ mp_q3(u, m, "fail")
        \/ handle_text(u, m, "fail") /\ ~StartsWithSlash(m.text)
    \/ \E tts \in GenOutcomes : start_kick(u, "fail", tts)
    \/ \E choice \in PerspChoices \ {"cancel"} : callback_perspective_choice(u, choice, "fail")

\* C10: every dialogue dispatch that calls the generation collaborator
\* (Personal AI chat, Perspective lens, Legacy, Mindprint, kick, generic free
\* text) and whose call fails ends with the handler completing and the user
\* having been sent a text, never with an unhandled exception.
C10_GenerationFailureIsHandled ==
    [][\A u \in Users :
        (GIGACHAT_CREDENTIALS /\ GenerationFails(u))
            => /\ ~raised'
               /\ \E i \in DOMAIN out' :
                    /\ out'[i].to = u
                    /\ out'[i].kind \in {"gen_error", "kick_voice", "voice_error"}]_vars

-----------------------------------------------------------------------------
\* Properties of the programme (checked under SpecProgram)

Active(tbl, u) == HasRow(tbl, u) /\ tbl[u].subscription_status = "active"

\* C5: over any sequence of activation events, a user's subscription start
\* timestamp is written only at the transition from non-active to active and
\* keeps its value in every later state in which the status is still active.
C5_StartWrittenOnlyOnActivation ==
    [][\A u \in Users :
        /\ (Active(users, u) /\ Active(users', u))
            => users'[u].subscription_start_date = users[u].subscription_start_date
        /\ (HasRow(users, u) /\ HasRow(users', u)
                /\ users'[u].subscription_start_date # users[u].subscription_start_date)
            => ~Active(users, u) /\ Active(users', u)]_vars

\* one iteration of the morning scan's loop has run, for the fetched row r
MorningIteration(r) ==
    /\ scan.running
    /\ scan.kind = "morning"
    /\ r = scan.rows[scan.pos]
    /\ \E gen \in GenOutcomes, send \in GenOutcomes : scan_user(gen, send)

LastOf(seq) == seq[Len(seq)]

\* C6: the morning scheduler's day number is floor((now - start) / 1 day) + 1
\* for every stored start timestamp, i.e. the day d with
\* (d - 1) days <= now - start < d days, and it is 1 when the user has no
\* start timestamp.
C6_DayNumber ==
    [][\A i \in DOMAIN scan.rows :
        MorningIteration(scan.rows[i])
            => LET r == scan.rows[i]
                   d == LastOf(attempts').day_num
               IN  /\ LastOf(attempts').uid = r.uid
                   /\ IF r.start_date = NULL
                      THEN d = 1
                      ELSE LET elapsed == now - fromisoformat(r.start_date)
                           IN  /\ (d - 1) * TicksPerDay <= elapsed
                               /\ elapsed < d * TicksPerDay]_vars

\* C6 witness: a morning scan has just computed day 3 for a user whose start
\* timestamp lies 2.5 days back (the day's catalogue entry is what the step
\* sent), after computing day 1 for a user without a start timestamp
C6_Witness ==
    /\ scan.kind = "morning"
    /\ attempts # <<>>
    /\ \E i, j \in DOMAIN attempts :
        /\ i = Len(attempts)
        /\ Active(users, attempts[i].uid)
        /\ 2 * (now - fromisoformat(users[attempts[i].uid].subscription_start_date))
                = 5 * TicksPerDay
        /\ attempts[i].day_num = 3
        /\ out = <<Effect(attempts[i].uid, "morning_catalogue", <<"day", 3>>)>>
        /\ HasRow(users, attempts[j].uid)
        /\ users[attempts[j].uid].subscription_start_date = NULL
        /\ attempts[j].day_num = 1

FallbackKinds == {"morning_generated", "morning_static"}

\* C7: in a morning firing, a user whose subscription status is not active is
\* sent the fallback message with the locked-content notice appended, and is
\* never sent a fixed catalogue title/task, whatever the day number.
C7_NonActiveGetsLockedFallback ==
    [][\A i \in DOMAIN scan.rows :
        (MorningIteration(scan.rows[i]) /\ scan.rows[i].status # "active")
            => /\ Len(out') = 1
               /\ out'[1].to = scan.rows[i].uid
               /\ out'[1].kind \in FallbackKinds
               /\ out'[1].arg = <<"locked">>]_vars

\* C8: in a morning firing, an active user whose day number d is within 1..7
\* is sent the fixed title/task of exactly day d; an active user whose day
\* number is outside 1..7 is sent the fallback message without the
\* locked-content notice.
C8_ActiveGetsDayContentOrOpenFallback ==
    [][\A i \in DOMAIN scan.rows :
        (MorningIteration(scan.rows[i]) /\ scan.rows[i].status = "active")
            => LET d == DayNumber(scan.rows[i].start_date, now)
               IN  /\ Len(out') = 1
                   /\ out'[1].to = scan.rows[i].uid
                   /\ IF d \in 1..ProtocolDays
                      THEN /\ out'[1].kind = "morning_catalogue"
                           /\ out'[1].arg = <<"day", d>>
                      ELSE /\ out'[1].kind \in FallbackKinds
                           /\ out'[1].arg = <<"open">>]_vars

\* C9: in every morning and every evening firing each user in the store is
\* attempted exactly once, and a failure for one user does not prevent the
\* attempt for any later user: the firing fetches one row per user in the
\* store, every iteration records the attempt of the next fetched row whatever
\* its outcome, and the scan ends only after the last fetched row.
C9_EveryUserAttemptedOnce ==
    [][/\ (morning_protocol \/ evening_report)
            => {scan'.rows[i].uid : i \in DOMAIN scan'.rows} = DOMAIN users
       /\ \A gen \in GenOutcomes, send \in GenOutcomes :
            scan_user(gen, send)
                => /\ Len(attempts') = scan.pos
                   /\ LastOf(attempts').uid = scan.rows[scan.pos].uid
                   /\ scan'.running = (scan.pos < Len(scan.rows))]_vars

\* the row's iteration reaches the GigaChat call: every evening row, and a
\* morning row that does not get catalogue content
CallsGeneration(r) ==
    /\ GIGACHAT_CREDENTIALS
    /\ scan.kind = "morning"
        => (r.status # "active" \/ PROTOCOL_7_get(DayNumber(r.start_date, now)) = NoContent)

\* C11: in the morning and evening scans, when the generation call fails for
\* a user, that user is still sent the static fallback message in the same
\* firing, with the locked-content notice in the morning scan when the user
\* is not active.
C11_ScanGenerationFailureSendsStatic ==
    [][\A send \in GenOutcomes :
        (scan.running /\ CallsGeneration(scan.rows[scan.pos]) /\ scan_user("fail", send))
            => LET r == scan.rows[scan.pos]
               IN  /\ Len(out') = 1
                   /\ out'[1].to = r.uid
                   /\ out'[1].kind = (IF scan.kind = "morning" THEN "morning_static"
                                      ELSE "evening_static")
                   /\ (scan.kind = "morning" /\ r.status # "active")
                        => out'[1].arg = <<"locked">>]_vars

-----------------------------------------------------------------------------
\* Further properties of the dialogue (checked under SpecDialogue)

\* C14: when the contract insert fails in the final step of the Futures
\* Contract flow, no contract is stored, the user is told that the attempt
\* failed, and the session stays at the stake step with goal and deadline
\* retained.
C14_InsertFailureKeepsSession ==
    [][\A u \in Users, m \in TextsOf(DialogueMessages) :
        (fsm_state[u] = "waiting_for_stake" /\ contract_stake(u, m, "fail"))
            => /\ contracts' = contracts
               /\ out' = <<Say(u, "sign_error")>>
               /\ fsm_state'[u] = "waiting_for_stake"
               /\ fsm_data'[u] = fsm_data[u]]_vars

\* C15: when a flow-entry trigger is handled while another flow is in
\* progress, afterwards only the new flow is active, at its first step, and
\* none of the answers collected by the earlier flow remain in the scratch
\* data.
C15_EntryDiscardsEarlierAnswers ==
    [][\A u \in Users, data \in FlowEntries :
        (fsm_state[u] # NoState /\ EntryHandler(u, data))
            => /\ fsm_state'[u] = FirstState(data)
               /\ fsm_data'[u] = EmptyData]_vars

\* a finalization of Perspective Shift was sent to user u: the opinion
\* generated for a lens and a problem
Finalized(effects, u) ==
    \E i \in DOMAIN effects : effects[i].to = u /\ effects[i].kind = "opinion"

\* C16: in the Perspective Shift flow, a text message at the problem step
\* stores the problem, presents the lens choices and keeps the session open
\* without finalizing; finalization (the generation call using the chosen
\* lens and the captured problem) happens only on a lens selection, after
\* which the session is cleared.
C16_PerspectiveTwoPhase ==
    [][\A u \in Users :
        /\ \A m \in TextsOf(DialogueMessages) :
            (fsm_state[u] = "waiting_for_problem" /\ Lower(m.text) \notin ExitKeywords
                    /\ FlowDispatch(u, m))
                => /\ fsm_data'[u] = [fsm_data[u] EXCEPT !["problem"] = m.text]
                   /\ out' = <<Say(u, "lens_choices")>>
                   /\ fsm_state'[u] = "waiting_for_problem"
        /\ Finalized(out', u)
                => /\ \E choice \in Lenses, gen \in GenOutcomes :
                        /\ callback_perspective_choice(u, choice, gen)
                        /\ out' = <<Say(u, "loading"),
                                    Effect(u, "opinion", <<choice, fsm_data[u]["problem"]>>)>>
                   /\ fsm_data[u]["problem"] # Absent
                   /\ fsm_state'[u] = NoState
                   /\ fsm_data'[u] = EmptyData]_vars

\* C17: selecting the Perspective cancel option clears the user's session,
\* makes no generation call (the prompt message is deleted and nothing else is
\* sent, whatever the generation collaborator would do) and writes nothing to
\* the users or the contracts table.
C17_CancelClearsWithoutGenerating ==
    [][\A u \in Users, gen \in GenOutcomes :
        callback_perspective_choice(u, "cancel", gen)
            => /\ fsm_state' = [fsm_state EXCEPT ![u] = NoState]
               /\ fsm_data' = [fsm_data EXCEPT ![u] = EmptyData]
               /\ out' = <<Say(u, "delete_message")>>
               /\ ~raised'
               /\ UNCHANGED store_vars]_vars

\* C17 witness: a user opened Perspective Shift, gave a problem and cancelled:
\* after these three events the prompt is deleted and every session is empty
C17_Witness ==
    \E u \in Users :
        /\ nEvents = 3
        /\ out = <<Say(u, "delete_message")>>
        /\ fsm_state = [v \in Users |-> NoState]
        /\ fsm_data = [v \in Users |-> EmptyData]
        /\ contracts = <<>>

\* C18: a persp_ selection whose lens is not one of the defined choices is
\* answered by a re-prompt or a not-a-valid-choice reply, does not finalize,
\* and leaves the session's step and collected data unchanged.
C18_UnknownLensIsRejected ==
    [][\A u \in Users, choice \in PerspChoices \ (Lenses \cup {"cancel"}), gen \in GenOutcomes :
        callback_perspective_choice(u, choice, gen)
            => /\ ~Finalized(out', u)
               /\ out' # <<>>
               /\ fsm_state'[u] = fsm_state[u]
               /\ fsm_data'[u] = fsm_data[u]]_vars

\* C19: a message without text (a photo, a sticker) that arrives while a
\* session is active leaves the session's step and scratch data unchanged and
\* is answered by a re-prompt; a step handler stores an answer and advances
\* only for a message that carries text.
C19_NoTextIsReprompted ==
    [][\A u \in Users :
        (fsm_state[u] # NoState /\ FlowDispatch(u, Photo))
            => /\ fsm_state'[u] = fsm_state[u]
               /\ fsm_data'[u] = fsm_data[u]
               /\ ~raised'
               /\ out' # <<>>]_vars

\* the handler registered with the state as its filter
StepHandlerOf(state) ==
    IF state = "chatting" THEN "process_personal_ai"
    ELSE IF state = "waiting_for_problem" THEN "process_perspective_problem"
    ELSE IF state = "waiting_for_goal" THEN "contract_goal"
    ELSE IF state = "waiting_for_deadline" THEN "contract_deadline"
    ELSE IF state = "waiting_for_stake" THEN "contract_stake"
    ELSE IF state = "waiting_for_memory" THEN "legacy_memory"
    ELSE IF state = "waiting_for_lessons" THEN "legacy_lessons"
    ELSE IF state = "waiting_for_q1" THEN "mp_q1"
    ELSE IF state = "waiting_for_q2" THEN "mp_q2"
    ELSE "mp_q3"

\* C20: whenever a session is active, every inbound text message that is not
\* an exit keyword is handled by the step handler of the current (flow, step)
\* and by no other handler, whatever its content: a main-menu label and a '/'
\* command included.
C20_ActiveSessionRoutesToStepHandler ==
    [][\A u \in Users, m \in TextsOf(DialogueMessages) :
        (fsm_state[u] # NoState /\ Lower(m.text) \notin ExitKeywords /\ FlowDispatch(u, m))
            => /\ MessageRoute(fsm_state[u], m) = StepHandlerOf(fsm_state[u])
               /\ \A i \in DOMAIN out' :
                    out'[i].kind \notin {"welcome", "hub_brain_menu", "hub_action_menu"}]_vars

-----------------------------------------------------------------------------
\* Properties of the event loop (checked under SpecLoop)

\* C12: no two handler executions for the same user overlap: while one
\* dispatch of a user is suspended at an await point or inside a generation
\* call, no second event of that user is dispatched on that user's session
\* state and scratch data.
C12_NoOverlapPerUser ==
    [][\A u \in Users :
        (TasksOf(u) # {} /\ Begins(u))
            => /\ fsm_state'[u] = fsm_state[u]
               /\ fsm_data'[u] = fsm_data[u]
               /\ TasksOf(u)' = TasksOf(u)]_vars

\* C13: while one user's dispatch is inside a generation call, inbound events
\* of other users can still be processed: in every state in which a task is
\* inside giga.chat, the handling of an update of any other user can start.
C13_GenerationDoesNotBlockOthers ==
    \A i \in DOMAIN tasks :
        (tasks[i].pc = "in_giga_chat" /\ nEvents < MaxEvents /\ Len(tasks) < MaxTasks)
            => \A v \in Users \ {tasks[i].user} : ENABLED Begins(v)

-----------------------------------------------------------------------------
\* Properties of a session's frame and of what a dispatch sends

\* the handler registered for the state the user is in, handling message m
OwnStepHandling(u, m) ==
    IF fsm_state[u] = "chatting"
    THEN \E gen \in GenOutcomes : process_personal_ai(u, m, gen)
    ELSE IF fsm_state[u] = "waiting_for_problem"
    THEN process_perspective_problem(u, m)
    ELSE StepHandling(u, m)

\* C21: an in-progress session is changed or cleared only by its own step
\* handler (for the Perspective flow that includes its lens selection), by
\* the exit keyword or the cancel option, or by a new flow-entry trigger;
\* every other step (/start, a hub label, a callback of another feature)
\* leaves the session's state and data as they were.
C21_SessionChangedOnlyByItsFlow ==
    [][\A u \in Users :
        (/\ fsm_state[u] # NoState
         /\ \/ fsm_state'[u] # fsm_state[u]
            \/ fsm_data'[u] # fsm_data[u])
            => \/ \E m \in DialogueMessages : OwnStepHandling(u, m)
               \/ \E data \in FlowEntries : EntryHandler(u, data)
               \/ \E gen \in GenOutcomes : callback_perspective_choice(u, "cancel", gen)
               \/ /\ fsm_state[u] \in PerspectiveState
                  /\ \E choice \in PerspChoices, gen \in GenOutcomes :
                        callback_perspective_choice(u, choice, gen)]_vars

\* C22: every dispatch that handles a user event inside a flow (a message
\* handled by the step handler of the user's state, or a lens selection in
\* the Perspective flow) completes without an unhandled exception and has
\* sent that user something other than the 'loading' placeholder: a result,
\* the next prompt or an error text, whatever the credentials and the
\* outcome of the generation call and of the store write.
C22_FlowDispatchEndsWithAnswer ==
    [][\A u \in Users :
        (/\ fsm_state[u] # NoState
         /\ \/ \E m \in DialogueMessages : OwnStepHandling(u, m)
            \/ /\ fsm_state[u] \in PerspectiveState
               /\ \E choice \in PerspChoices \ {"cancel"}, gen \in GenOutcomes :
                        callback_perspective_choice(u, choice, gen))
            => /\ ~raised'
               /\ \E i \in DOMAIN out' :
                    /\ out'[i].to = u
                    /\ out'[i].kind # "loading"]_vars

-----------------------------------------------------------------------------
\* Properties of the evening report and of the programme's end

\* C23: each evening firing sends every user in the store one message that
\* carries the three-way control: the firing fetches one row per user in the
\* store, and every iteration whose send succeeds has sent the row's user
\* exactly one message with report_100 / report_50 / report_0.
C23_EveningFiringReachesEveryUser ==
    [][/\ evening_report
            => {scan'.rows[i].uid : i \in DOMAIN scan'.rows} = DOMAIN users
       /\ \A gen \in GenOutcomes :
            (scan.running /\ scan.kind = "evening" /\ scan_user(gen, "ok"))
                => /\ Len(out') = 1
                   /\ out'[1].to = scan.rows[scan.pos].uid
                   /\ out'[1].arg = EveningControl]_vars

\* the score of an evening choice, on the scale of ten
Score(choice) ==
    IF choice = "100" THEN 10 ELSE IF choice = "50" THEN 5 ELSE 0

CompletionNotice(u) ==
    \E i \in DOMAIN out' : out'[i] = Say(u, "protocol_completed")

\* C25: the completion notice is emitted at most once per user and only when
\* that user's programme day crosses the catalogue's last day: a step sends
\* the notice only to an active user whose day number has reached day 7 and
\* who has not been recorded as having completed day 7 before.
C25_CompletionNoticeOnce ==
    [][\A u \in Users :
        CompletionNotice(u)
            => /\ Active(users, u)
               /\ DayNumber(users[u].subscription_start_date, now) >= ProtocolDays
               /\ users[u].last_completed_day # CompletionDay]_vars

-----------------------------------------------------------------------------
\* Properties of the history cache, the Legacy flow and the store

\* C26: a win text a user submits is held by the History Cache afterwards as
\* one entry under its normalized form, and a submission whose normalized
\* form the cache already holds is reported to the user as already seen.  A
\* text sent outside every flow is the only way a user can submit one.
C26_DuplicateWinIsSuppressed ==
    [][\A u \in Users, m \in TextsOf(DialogueMessages) :
        (/\ fsm_state[u] = NoState
         /\ ~StartsWithSlash(m.text)
         /\ \E gen \in GenOutcomes : handle_text(u, m, gen))
            => /\ normalize_text(m.text) \in HISTORY_CACHE'[u]
               /\ normalize_text(m.text) \in HISTORY_CACHE[u]
                    => \E i \in DOMAIN out' : out'[i] = Say(u, "already_seen")]_vars

\* C27: the Legacy flow writes nothing: its entry handler and its two step
\* handlers leave the users, contracts and stats tables as they were, for
\* every message, with or without credentials and whether the generation
\* call succeeds or fails; the lessons step ends with the session cleared
\* (no state, no collected answers) and without an unhandled exception.
C27_LegacyWritesNothing ==
    [][\A u \in Users :
        /\ start_legacy(u) => UNCHANGED store_vars
        /\ fsm_state[u] \in LegacyState
            => \A m \in DialogueMessages :
                StepHandling(u, m)
                    => /\ UNCHANGED store_vars
                       /\ fsm_state[u] = "waiting_for_lessons"
                            => /\ fsm_state'[u] = NoState
                               /\ fsm_data'[u] = EmptyData
                               /\ ~raised']_vars

\* C27 witness: a user went through the Legacy flow in three events (entry,
\* memory, lessons): the lessons step has just sent the manifesto, the
\* session is cleared and the three tables are empty
C27_Witness ==
    \E u \in Users :
        /\ nEvents = 3
        /\ GIGACHAT_CREDENTIALS
        /\ out = <<Say(u, "loading"), Say(u, "manifesto_photo")>>
        /\ fsm_state[u] = NoState
        /\ fsm_data[u] = EmptyData
        /\ DOMAIN users = {}
        /\ contracts = <<>>
        /\ stats = <<>>

\* C28: running init_db on an existing store is non-destructive and
\* idempotent: whatever happens inside it, every row of users, contracts and
\* stats that the store held before the run is there after it (the tables and
\* columns are those of the first run in every state of the model).
C28_InitDbKeepsTheStore ==
    [][\A e \in InitErrors : main(e) => UNCHANGED <<users, contracts, stats>>]_vars

\* C30: in TEST_MODE, handling the blackbox_unlock selection of a user who
\* has a row in users leaves that user with subscription_status 'active', a
\* start timestamp equal to the current time and an expiry 30 days later.
C30_TestModeUnlockActivates ==
    [][\A u \in Users :
        (/\ PAYMENT_TOKEN = "TEST_MODE"
         /\ HasRow(users, u)
         /\ \E gen \in GenOutcomes : start_payment(u, gen))
            => /\ users'[u].subscription_status = "active"
               /\ users'[u].subscription_start_date = isoformat(now)
               /\ users'[u].subscription_expiry
                    = isoformat(now + SubscriptionDays * TicksPerDay)]_vars

-----------------------------------------------------------------------------
\* Further properties of the subscription (checked under SpecProgram)

\* C31: after a successful-payment event whose write succeeds, the paying
\* user's subscription_status is 'active' and the expiry is the start plus 30
\* days, for every user: also one who has no row in users when the payment
\* arrives.
C31_PaymentActivatesEveryUser ==
    [][\A u \in Users :
        process_successful_payment(u, SuccessfulPayment, "ok")
            => /\ Active(users', u)
               /\ users'[u].subscription_start_date = isoformat(now)
               /\ users'[u].subscription_expiry
                    = isoformat(now + SubscriptionDays * TicksPerDay)]_vars

-----------------------------------------------------------------------------
\* Further properties of the dialogue (checked under SpecDialogue)

\* C32: the finalization of Perspective Shift runs only when the user's
\* session is in the Perspective flow with a captured problem: a lens
\* selection that arrives with no session, in another flow, or without a
\* captured problem calls no generation (no opinion and no generation error
\* is sent) and leaves the user's state and collected answers as they were.
C32_LensOutsidePerspectiveIsIgnored ==
    [][\A u \in Users, choice \in PerspChoices \ {"cancel"}, gen \in GenOutcomes :
        (/\ \/ fsm_state[u] \notin PerspectiveState
            \/ fsm_data[u]["problem"] = Absent
         /\ callback_perspective_choice(u, choice, gen))
            => /\ \A i \in DOMAIN out' : out'[i].kind \notin {"opinion", "gen_error"}
               /\ fsm_state'[u] = fsm_state[u]
               /\ fsm_data'[u] = fsm_data[u]]_vars

\* the keys the handlers of a step read from the scratch data
KeysReadAt(step) ==
    IF step = "waiting_for_deadline" THEN {"goal"}
    ELSE IF step = "waiting_for_stake" THEN {"goal", "deadline"}
    ELSE IF step = "waiting_for_lessons" THEN {"memory"}
    ELSE IF step = "waiting_for_q2" THEN {"q1"}
    ELSE IF step = "waiting_for_q3" THEN {"q1", "q2"}
    ELSE {}

\* C33: with the events of a user handled one at a time, in every reachable
\* state the scratch data holds every key the current and the later steps of
\* the flow read: 'goal' at the deadline step, 'goal' and 'deadline' at the
\* stake step, 'memory' at the Legacy lessons step, 'q1' at Mindprint q2,
\* 'q1' and 'q2' at Mindprint q3, also after a switch of flows; so no step
\* handler has ended by reading a missing key.
C33_StepsHoldTheirKeys ==
    /\ [](\A u \in Users :
            \A k \in KeysReadAt(fsm_state[u]) : fsm_data[u][k] # Absent)
    /\ [][\A u \in Users :
            (/\ fsm_state[u] \in SequentialSteps
             /\ \E m \in DialogueMessages : StepHandling(u, m))
                => ~raised']_vars

\* C33 witness: a user who left the Futures Contract after the goal and
\* entered Mindprint is at q2 with 'q1' stored (and the old 'goal' still
\* there)
C33_Witness ==
    \E u \in Users :
        /\ fsm_state[u] = "waiting_for_q2"
        /\ fsm_data[u]["q1"] = "b"
        /\ fsm_data[u]["goal"] = "a"
        /\ out = <<Say(u, "prompt_q2")>>

-----------------------------------------------------------------------------
\* Properties of the catalogue and of the invoice

\* the kinds of message that carry a title and a task of PROTOCOL_7
CatalogueKinds == {"morning_catalogue", "test_catalogue"}

\* C34: fixed catalogue content is sent to a user only when that user's
\* subscription_status is 'active': no step (a command, a callback, an
\* iteration of the morning scan) sends a PROTOCOL_7 entry to a user who has
\* no row or whose status is not 'active'.
C34_CatalogueOnlyForActive ==
    [][\A i \in DOMAIN out' :
        out'[i].kind \in CatalogueKinds => Active(users, out'[i].to)]_vars

\* C34 witness: the morning scan has just sent day 1's entry to an active
\* user while the store also holds a user who is not active
C34_Witness ==
    \E u, v \in Users :
        /\ out = <<Effect(u, "morning_catalogue", <<"day", 1>>)>>
        /\ Active(users, u)
        /\ HasRow(users, v)
        /\ ~Active(users, v)

\* the expiry stored for user u lies before time t
Expired(tbl, u, t) ==
    /\ HasRow(tbl, u)
    /\ tbl[u].subscription_expiry # NULL
    /\ fromisoformat(tbl[u].subscription_expiry) < t

Invoices(o) == {i \in DOMAIN o : o[i].kind = "invoice"}

\* C36: with a real payment token, a step that handles one blackbox_unlock
\* selection sends exactly one invoice to the user.
C36_OneInvoicePerSelection ==
    [][\A u \in Users :
          (PAYMENT_TOKEN # "TEST_MODE" /\ start_payment(u, "ok"))
              => Cardinality(Invoices(out')) = 1]_vars

\* the messages that report the outcome of a generation call
GenerationKinds == {"gen_result", "gen_error"}

\* C37: in Personal AI chat mode, a text whose lower-cased form is an exit
\* keyword ends the mode with the closing message and no generation call;
\* every other text message leaves the session in chat mode after it is
\* handled, whether generation succeeds, fails or is not configured.
C37_ChatModeUntilExitKeyword ==
    [][\A u \in Users, m \in TextsOf(DialogueMessages) :
        (fsm_state[u] \in PersonalAIState /\ FlowDispatch(u, m))
            => IF Lower(m.text) \in ExitKeywords
               THEN /\ fsm_state'[u] = NoState
                    /\ out' = <<Say(u, "closing")>>
                    /\ \A i \in DOMAIN out' : out'[i].kind \notin GenerationKinds
               ELSE fsm_state'[u] \in PersonalAIState]_vars

\* C37 witness: a generation has just failed for a user who is still in chat
\* mode
C37_Witness ==
    \E u \in Users :
        /\ fsm_state[u] \in PersonalAIState
        /\ GIGACHAT_CREDENTIALS
        /\ out = <<Say(u, "gen_error")>>

-----------------------------------------------------------------------------
\* Properties of the list of contracts and of the history cache's keys

\* positions in the contracts table of the rows of user u
RowsOf(u) == {i \in DOMAIN contracts : contracts[i].user_id = u}

\* the position of the k-th newest row of user u
NthNewest(u, k) ==
    CHOOSE i \in RowsOf(u) : Cardinality({j \in RowsOf(u) : j > i}) = k - 1

\* C39: listing a user's contracts shows all and only that user's contract
\* records, newest first, and reports an empty archive when the user has none.
C39_ListShowsAllNewestFirst ==
    [][\A u \in Users :
          cb_contract_list(u, "ok")
              => IF RowsOf(u) = {}
                 THEN out' = <<Say(u, "archive_empty")>>
                 ELSE /\ Len(out') = 1
                      /\ out'[1].to = u
                      /\ out'[1].kind = "contract_list"
                      /\ Len(out'[1].arg[1]) = Cardinality(RowsOf(u))
                      /\ \A k \in 1..Cardinality(RowsOf(u)) :
                            out'[1].arg[1][k] = EntryOf(contracts[NthNewest(u, k)])]_vars

\* the rows of user u in the user_wins table
WinsOf(u) == {i \in DOMAIN user_wins.rows : user_wins.rows[i].user_id = u}

C40_NormalizeIsIdempotent ==
    \A u \in Users : \A x \in HISTORY_CACHE[u] : normalize_chars(x) = x

=============================================================================
